---- MODULE Spec2Model ----
(***************************************************************************)
(* A model of the UnityMCP sidecar (src/tools/sidecar.py): the HTTP        *)
(* gateway between an MCP client and the Unity editor.  Two threads share  *)
(* the module globals: the HTTP server (HTTPServer.serve_forever, one      *)
(* request at a time) and the daemon thread running health_check_loop.     *)
(***************************************************************************)
EXTENDS Integers, Sequences, FiniteSets, TLC

(***************************************************************************)
(* Program constants.                                                      *)
(***************************************************************************)
HEALTH_CHECK_INTERVAL == 5
MAX_RETRIES == 30
FirstPort == 8081
\* A mutant of FOCUS_ACTIONS: get_settings is left to Unity.
FOCUS_ACTIONS_without_get_settings ==
    {"focus", "restore_focus", "set_auto_focus"}
FOCUS_ACTIONS == {"focus", "restore_focus", "set_auto_focus", "get_settings"}

(***************************************************************************)
(* Bounds of the model.                                                    *)
(***************************************************************************)
\* DISCOVERY_PORTS is range(8081, 8091) in the source; the model scans the
\* first DiscoveryCount ports of it.
DiscoveryCount == 2
\* The health-check intervals that pass while the program runs.
MaxIntervals == 1
\* Window handles the window manager can hand out: 1..NumWindows.
NumWindows == 1

DISCOVERY_PORTS == FirstPort .. (FirstPort + DiscoveryCount - 1)
\* A port that lies outside range(8081, 8091).
OutsidePort == 8091
\* The values of --unity-port the model starts with: the default, another
\* port of the discovery range, and a port outside of it.
PrimaryPorts == {FirstPort, FirstPort + 1, OutsidePort}

Threads == {"health", "server"}

(***************************************************************************)
(* Window handles.  user32.GetForegroundWindow has restype HWND, so ctypes *)
(* returns None for a NULL handle and an int otherwise; the module starts  *)
(* with the int 0 in _previous_foreground_window.                          *)
(***************************************************************************)
NoWindow == 0
NoneHwnd == -1
Hwnds == 1 .. NumWindows

(***************************************************************************)
(* Request bodies.  A body is what json.loads makes of the bytes:          *)
(*   shape "garbage": the bytes are not JSON (json.loads raises);          *)
(*   shape "falsy":   JSON whose value is falsy in Python ({}, [], 0, ""); *)
(*   shape "array":   a truthy value that is not an object;                *)
(*   shape "object":  a non-empty object with the fields below.            *)
(* An id is "absent" or a typed value: "n:1" is the number 1 and "s:1" the *)
(* string "1".                                                             *)
(***************************************************************************)
Absent == "absent"
Ids == {Absent, "n:1", "s:1"}
Body(shape, id, method, params, name, arguments, action, enabled) ==
    [shape |-> shape, id |-> id, method |-> method, params |-> params,
     name |-> name, arguments |-> arguments, action |-> action,
     enabled |-> enabled]
NonObjectBodies ==
    {Body(s, Absent, Absent, Absent, Absent, Absent, Absent, Absent) :
        s \in {"garbage", "falsy", "array"}}
ObjectBodies ==
    LET B(id, method, params, name, arguments, action, enabled) ==
            Body("object", id, method, params, name, arguments, action, enabled)
    IN  \* another method, with every kind of id: params are not looked at
        {B(id, "tools/list", Absent, Absent, Absent, Absent, Absent) :
            id \in Ids}
        \cup
        \* no method at all
        {B("n:1", Absent, Absent, Absent, Absent, Absent, Absent)}
        \cup
        \* tools/call with no params, or params that are not an object
        {B("n:1", "tools/call", p, Absent, Absent, Absent, Absent) :
            p \in {Absent, "nonobject"}}
        \cup
        \* tools/call of another tool, or with no tool name
        {B("n:1", "tools/call", "object", n, Absent, Absent, Absent) :
            n \in {Absent, "manage_scene"}}
        \cup
        \* manage_editor without arguments, or arguments not an object
        {B("n:1", "tools/call", "object", "manage_editor", a, Absent, Absent) :
            a \in {Absent, "nonobject"}}
        \cup
        \* manage_editor with no action, or one that is Unity's
        {B("n:1", "tools/call", "object", "manage_editor", "object", act,
           Absent) : act \in {Absent, "play"}}
        \cup
        \* the focus actions, with every kind of id
        {B(id, "tools/call", "object", "manage_editor", "object", act, Absent) :
            id \in Ids,
            act \in {"focus", "restore_focus", "get_settings", "set_auto_focus"}}
        \cup
        \* set_auto_focus with "enabled": true, false, or the string "false"
        {B(id, "tools/call", "object", "manage_editor", "object",
           "set_auto_focus", e) :
            id \in Ids, e \in {"true", "false", "s:false"}}
Bodies == NonObjectBodies \cup ObjectBodies

\* The bodies Unity answers with: opaque byte strings.
BackendBodies == {"unity-body-1", "unity-body-2"}

VARIABLES
    \* the environment
    platform,                    \* sys.platform
    settings_file,               \* content of .sidecar_settings.json
    now,                         \* time.time()
    \* module globals
    unity_port,
    unity_connected,
    last_unity_check,
    unity_instances,
    previous_foreground_window,
    auto_focus_enabled,
    \* the threads
    pc,                          \* where each thread is
    now_l,                       \* check_unity_health: now
    primary_alive,               \* check_unity_health: primary_alive
    port_i,                      \* check_unity_health: port
    new_instances,               \* check_unity_health: new_instances
    wake_at,                     \* health_check_loop: end of time.sleep
    prev_states,                 \* health_check_loop: prev_states
    log,                         \* health_check_loop: lines of this pass
    \* the request the server is handling
    path,                        \* self.path
    body_bytes,
    request_id,
    attempt,
    last_error,
    status_doc,                  \* do_GET: instances
    response,                    \* what was written to the client
    \* what the backend saw of the request being forwarded
    sent,                        \* calls of forward_to_unity so far
    refused_only,                \* every attempt so far was refused
    unity_reply                  \* the body Unity answered with

env_vars     == <<platform, settings_file, now>>
registry_vars == <<unity_connected, last_unity_check, unity_instances>>
focus_vars   == <<previous_foreground_window, auto_focus_enabled>>
refresh_vars == <<now_l, primary_alive, port_i, new_instances>>
health_vars  == <<wake_at, prev_states, log>>
request_vars == <<path, body_bytes, request_id, attempt, last_error, status_doc,
                  response, sent, refused_only, unity_reply>>
vars == <<env_vars, unity_port, registry_vars, focus_vars, pc, refresh_vars,
          health_vars, request_vars>>

None == "none"
EmptyMap == <<>>

(***************************************************************************)
(* Persistent settings: _load_settings and _save_settings.  The file is    *)
(* "missing", holds {"auto_focus": true} or {"auto_focus": false}, or is   *)
(* "corrupt" (a write that broke off after open() truncated the file).     *)
(***************************************************************************)
FileContents == {"missing", "true", "false", "corrupt"}
\* How a write of the file can end: written, refused by open() (the file
\* is left as it was), or broken off after the file was truncated.
SaveOutcomes == {"ok", "denied", "partial"}

\* _load_settings: the value _auto_focus_enabled has after startup.
LoadSettings(file) ==
    IF file = "true" THEN TRUE
    ELSE FALSE \* "false"; or FileNotFoundError / JSONDecodeError: pass

\* _save_settings: the file after writing {"auto_focus": enabled}.
SaveSettings(file, enabled, outcome) ==
    CASE outcome = "ok"      -> IF enabled THEN "true" ELSE "false"
      [] outcome = "denied"  -> file
      [] outcome = "partial" -> "corrupt"

(***************************************************************************)
(* handle_focus_action.  fg is what GetForegroundWindow returns, unity_hwnd*)
(* what _find_unity_hwnd returns, focused and restored what                *)
(* SetForegroundWindow returns, save how _save_settings ends.  The value   *)
(* is the result dict and the globals and the file after the call; the     *)
(* "message" text of a result is a function of its other fields and is     *)
(* left out.                                                               *)
(***************************************************************************)
\* bool(params.get("enabled", False))
EnabledArg(enabled) == enabled \in {"true", "s:false"}

UnsupportedResult ==
    [success |-> FALSE,
     error |-> "Window focus management is only supported on Windows."]
NotFoundResult ==
    [success |-> FALSE,
     error |-> "Could not find Unity Editor window. Is Unity running?"]
NoPreviousResult ==
    [success |-> FALSE,
     error |-> "No previous window saved. Call 'focus' first to save the previous window."]

\* The outcome of a call: the result dict, the two globals and the file.
Outcome(result, prev, auto, file) ==
    [result |-> result, prev |-> prev, auto |-> auto, file |-> file]

\* A mutant of FocusAction: the foreground window is saved only once the
\* Unity window has been found.
FocusAction_finds_first(fg, unity_hwnd, focused) ==
    IF unity_hwnd = NoWindow
    THEN Outcome(NotFoundResult, previous_foreground_window,
                 auto_focus_enabled, settings_file)
    ELSE Outcome([success |-> TRUE, focused |-> focused,
                  previous_window_saved |-> fg # NoWindow,
                  handled_by |-> "sidecar"],
                 fg, auto_focus_enabled, settings_file)

\* lines 173-190
FocusAction(fg, unity_hwnd, focused) ==
    IF unity_hwnd = NoWindow
    THEN Outcome(NotFoundResult, fg, auto_focus_enabled, settings_file)
    ELSE Outcome([success |-> TRUE, focused |-> focused,
                  previous_window_saved |-> fg # NoWindow,
                  handled_by |-> "sidecar"],
                 fg, auto_focus_enabled, settings_file)

\* A mutant of RestoreFocusAction: the saved reference is not cleared.
RestoreFocusAction_keeps_reference(restored) ==
    IF previous_foreground_window = NoWindow
    THEN Outcome(NoPreviousResult, previous_foreground_window,
                 auto_focus_enabled, settings_file)
    ELSE Outcome([success |-> TRUE, restored |-> restored,
                  handled_by |-> "sidecar"],
                 previous_foreground_window, auto_focus_enabled,
                 settings_file)

\* lines 192-210
RestoreFocusAction(restored) ==
    IF previous_foreground_window = NoWindow
    THEN Outcome(NoPreviousResult, previous_foreground_window,
                 auto_focus_enabled, settings_file)
    ELSE Outcome([success |-> TRUE, restored |-> restored,
                  handled_by |-> "sidecar"],
                 NoWindow, auto_focus_enabled, settings_file)

\* A mutant of SetAutoFocusAction: setting the preference drops the saved
\* reference.
SetAutoFocusAction_drops_reference(enabled, save) ==
    Outcome([success |-> TRUE, auto_focus |-> EnabledArg(enabled),
             handled_by |-> "sidecar"],
            NoWindow, EnabledArg(enabled),
            SaveSettings(settings_file, EnabledArg(enabled), save))

\* lines 212-224
SetAutoFocusAction(enabled, save) ==
    Outcome([success |-> TRUE, auto_focus |-> EnabledArg(enabled),
             handled_by |-> "sidecar"],
            previous_foreground_window, EnabledArg(enabled),
            SaveSettings(settings_file, EnabledArg(enabled), save))

\* A mutant of GetSettingsAction: reading the settings consumes the saved
\* reference.
GetSettingsAction_consumes ==
    Outcome([success |-> TRUE, auto_focus |-> auto_focus_enabled,
             has_previous_window |-> previous_foreground_window # NoWindow,
             platform |-> "windows", handled_by |-> "sidecar"],
            NoWindow, auto_focus_enabled, settings_file)

\* lines 226-233
GetSettingsAction ==
    Outcome([success |-> TRUE, auto_focus |-> auto_focus_enabled,
             has_previous_window |-> previous_foreground_window # NoWindow,
             platform |-> "windows", handled_by |-> "sidecar"],
            previous_foreground_window, auto_focus_enabled, settings_file)

\* A mutant of HandleFocusAction: get_settings skips the platform test.
HandleFocusAction_settings_anywhere(action, enabled, fg, unity_hwnd, focused, restored, save) ==
    IF platform # "win32" /\ action # "get_settings"
    THEN Outcome(UnsupportedResult, previous_foreground_window,
                 auto_focus_enabled, settings_file)
    ELSE CASE action = "focus" -> FocusAction(fg, unity_hwnd, focused)
           [] action = "restore_focus" -> RestoreFocusAction(restored)
           [] action = "set_auto_focus" -> SetAutoFocusAction(enabled, save)
           [] action = "get_settings" -> GetSettingsAction

HandleFocusAction(action, enabled, fg, unity_hwnd, focused, restored, save) ==
    IF platform # "win32"
    THEN Outcome(UnsupportedResult, previous_foreground_window,
                 auto_focus_enabled, settings_file)
    ELSE CASE action = "focus" -> FocusAction(fg, unity_hwnd, focused)
           [] action = "restore_focus" -> RestoreFocusAction(restored)
           [] action = "set_auto_focus" -> SetAutoFocusAction(enabled, save)
           [] action = "get_settings" -> GetSettingsAction

(***************************************************************************)
(* is_focus_action, on what json.loads returned: "yes" (True, action,      *)
(* args), "no" (False, None, None), or "raise": .get() called on a value   *)
(* that is not a dict raises AttributeError.                               *)
(***************************************************************************)
IsFocusAction(parsed) ==
    IF parsed.shape # "object" THEN "raise"
    ELSE IF parsed.method # "tools/call" THEN "no"
    ELSE IF parsed.params = "nonobject" THEN "raise"
    ELSE IF parsed.name # "manage_editor" THEN "no"
    ELSE IF parsed.arguments = "nonobject" THEN "raise"
    ELSE IF parsed.action \in FOCUS_ACTIONS THEN "yes"
    ELSE "no"

(***************************************************************************)
(* do_POST: parsing, routing and the envelopes it writes.                  *)
(***************************************************************************)
\* A mutant of RequestId: the id is turned into a string.
RequestId_as_string(body) ==
    IF body.shape = "object" /\ body.id # Absent
    THEN (IF body.id = "n:1" THEN "s:1" ELSE body.id)
    ELSE "s:?"

\* request_id after the try block of lines 375-386: "?" unless the body
\* parsed to an object, and then parsed.get("id", "?").
RequestId(body) ==
    IF body.shape = "object" /\ body.id # Absent THEN body.id ELSE "s:?"

\* `if parsed:` -- parsed is None after a parse error, and falsy values
\* are skipped as well.
Truthy(body) == body.shape \in {"array", "object"}

\* How do_POST routes the body: "local", "forward", or "raise" when
\* is_focus_action raises out of the handler.
Route(body) ==
    IF ~Truthy(body) THEN "forward"
    ELSE CASE IsFocusAction(body) = "yes"   -> "local"
           [] IsFocusAction(body) = "no"    -> "forward"
           [] IsFocusAction(body) = "raise" -> "raise"

\* A mutant of LocalEnvelope: a failed result goes into an error field.
LocalEnvelope_failure_as_error(rid, result) ==
    IF result.success
    THEN [status |-> 200, jsonrpc |-> "2.0",
          result |-> [content |-> <<[type |-> "text", text |-> result]>>],
          id |-> rid]
    ELSE [status |-> 200, jsonrpc |-> "2.0",
          error |-> [code |-> -32000, message |-> <<result.error>>],
          id |-> rid]

\* A mutant of LocalEnvelope: a failed result is replaced by a bare failure.
LocalEnvelope_failure_dropped(rid, result) ==
    [status |-> 200, jsonrpc |-> "2.0",
     result |-> [content |-> <<[type |-> "text",
                                text |-> IF result.success THEN result
                                         ELSE [success |-> FALSE,
                                               error |-> "failed"]]>>],
     id |-> rid]

\* The envelope of lines 395-401 around a handler result.
LocalEnvelope(rid, result) ==
    [status |-> 200, jsonrpc |-> "2.0",
     result |-> [content |-> <<[type |-> "text", text |-> result]>>],
     id |-> rid]

\* A mutant of ErrorEnvelope: the failure is reported as a gateway error.
ErrorEnvelope_bad_gateway(rid, port) ==
    [status |-> 502, jsonrpc |-> "2.0",
     error |-> [code |-> -32000,
                message |-> <<"Unity not reachable on port", port,
                              ". Is Unity running with Unixxty MCP active?">>],
     id |-> rid]

\* The envelope of lines 429-436.
ErrorEnvelope(rid, port) ==
    [status |-> 200, jsonrpc |-> "2.0",
     error |-> [code |-> -32000,
                message |-> <<"Unity not reachable on port", port,
                              ". Is Unity running with Unixxty MCP active?">>],
     id |-> rid]

\* A mutant of RawResponse: the answer written is not the one received.
RawResponse_other_bytes(bytes) ==
    [status |-> 200,
     raw |-> IF bytes = "unity-body-2" THEN "unity-body-1" ELSE bytes]

\* Lines 416-421: the bytes Unity answered with, written as they are.
RawResponse(bytes) == [status |-> 200, raw |-> bytes]

\* A handler that has not read a body, and one that has written nothing.
NoBody == Body(None, Absent, Absent, Absent, Absent, Absent, Absent, Absent)
NoResponse == [status |-> 0]

NoRequest ==
    [path |-> None, body_bytes |-> NoBody, request_id |-> None, attempt |-> 0,
     last_error |-> None, status_doc |-> <<>>, response |-> NoResponse,
     sent |-> 0, refused_only |-> TRUE, unity_reply |-> None]

SetRequest(r) ==
    /\ path' = r.path
    /\ body_bytes' = r.body_bytes
    /\ request_id' = r.request_id
    /\ attempt' = r.attempt
    /\ last_error' = r.last_error
    /\ status_doc' = r.status_doc
    /\ response' = r.response
    /\ sent' = r.sent
    /\ refused_only' = r.refused_only
    /\ unity_reply' = r.unity_reply

Goto(t, label) == pc' = [pc EXCEPT ![t] = label]

\* The paths of the requests the server gets.
Paths == {"/status", "/", "/other"}

\* do_POST does not read self.path: a POST is routed by its body alone.
\* POST(bodies) is do_POST for the clients that send a body of bodies.
POST(bodies) ==
    /\ pc["server"] = "idle"
    /\ \E url \in Paths \ {"/status"}, body \in bodies :
       \* what the calls of user32 and the write of the settings file
       \* return, for the action that makes them
       \E fg \in (IF body.action = "focus"
                  THEN Hwnds \cup {NoneHwnd} ELSE {NoneHwnd}),
          unity_hwnd \in (IF body.action = "focus"
                          THEN Hwnds \cup {NoWindow} ELSE {NoWindow}),
          focused \in (IF body.action = "focus" THEN BOOLEAN ELSE {FALSE}),
          restored \in (IF body.action = "restore_focus"
                        THEN BOOLEAN ELSE {FALSE}),
          save \in (IF body.action = "set_auto_focus"
                    THEN SaveOutcomes ELSE {"ok"}) :
        LET rid == RequestId(body)
            req == [NoRequest EXCEPT !.path = url, !.body_bytes = body,
                                     !.request_id = rid]
            h   == HandleFocusAction(body.action, body.enabled, fg, unity_hwnd,
                                     focused, restored, save)
        IN  CASE Route(body) = "local" ->
                   /\ previous_foreground_window' = h.prev
                   /\ auto_focus_enabled' = h.auto
                   /\ settings_file' = h.file
                   /\ SetRequest([req EXCEPT
                                     !.response = LocalEnvelope(rid, h.result)])
                   /\ Goto("server", "responded")
              [] Route(body) = "forward" ->
                   /\ SetRequest(req)
                   /\ Goto("server", "forward")
                   /\ UNCHANGED <<focus_vars, settings_file>>
              [] Route(body) = "raise" ->
                   \* the exception leaves the handler: nothing is written
                   /\ SetRequest(req)
                   /\ Goto("server", "aborted")
                   /\ UNCHANGED <<focus_vars, settings_file>>
    /\ UNCHANGED <<platform, now, unity_port, registry_vars, refresh_vars,
                   health_vars>>

do_POST == POST(Bodies)

\* The requests that set and read the preference.
PreferenceBodies ==
    {b \in Bodies : /\ Route(b) = "local"
                    /\ b.action \in {"set_auto_focus", "get_settings"}
                    /\ b.id = "n:1"}

(***************************************************************************)
(* forward_with_retry and forward_to_unity.  One attempt ends in one of:   *)
(*   "ok":          Unity answered 200 with a body;                        *)
(*   "refused":     connection refused (URLError);                         *)
(*   "timeout":     the body was sent, no answer within REQUEST_TIMEOUT    *)
(*                  (socket.timeout, an OSError);                          *)
(*   "bad_response": the answer broke off (http.client.IncompleteRead or   *)
(*                  BadStatusLine: an HTTPException, not an OSError).      *)
(***************************************************************************)
Failures == {"refused", "timeout", "bad_response"}

\* except (urllib.error.URLError, ConnectionRefusedError, OSError)
Retryable(failure) == failure \in {"refused", "timeout"}

\* A mutant of LoopExhausted: the loop runs twice as long.
LoopExhausted_twice(a) == a + 1 >= 2 * MAX_RETRIES

\* A mutant of LoopExhausted: one attempt more than MAX_RETRIES.
LoopExhausted_one_more(a) == a >= MAX_RETRIES

\* `for attempt in range(MAX_RETRIES)` ends after the failure of attempt.
LoopExhausted(a) == a + 1 >= MAX_RETRIES

ForwardOk ==
    /\ pc["server"] = "forward"
    /\ \E bytes \in BackendBodies :
        /\ unity_reply' = bytes
        /\ response' = RawResponse(bytes)
    /\ sent' = sent + 1
    /\ Goto("server", "responded")
    /\ UNCHANGED <<env_vars, unity_port, registry_vars, focus_vars,
                   refresh_vars, health_vars, path, body_bytes,
                   request_id, attempt,
                   last_error, status_doc, refused_only>>

ForwardFail ==
    /\ pc["server"] = "forward"
    /\ \E failure \in Failures :
        /\ refused_only' = (refused_only /\ failure = "refused")
        /\ IF Retryable(failure)
           THEN /\ last_error' = failure
                /\ attempt' = attempt + 1
                /\ IF LoopExhausted(attempt)
                   THEN \* raise last_error, caught at line 426
                        /\ response' = ErrorEnvelope(request_id, unity_port)
                        /\ Goto("server", "responded")
                   ELSE \* time.sleep(RETRY_INTERVAL), next attempt
                        /\ UNCHANGED <<response, pc>>
           ELSE \* raise e, caught at line 426
                /\ response' = ErrorEnvelope(request_id, unity_port)
                /\ Goto("server", "responded")
                /\ UNCHANGED <<last_error, attempt>>
    /\ sent' = sent + 1
    /\ UNCHANGED <<env_vars, unity_port, registry_vars, focus_vars,
                   refresh_vars, health_vars, path, body_bytes,
                   request_id,
                   status_doc, unity_reply>>

(***************************************************************************)
(* check_unity_health, run by thread t: the health-check thread, or the    *)
(* server thread inside do_GET.  Nothing locks the globals, so the steps   *)
(* of the two threads interleave; a step is the code between two reads or  *)
(* writes of a global that the other thread can see.                       *)
(***************************************************************************)
\* line 277: now - last_unity_check < HEALTH_CHECK_INTERVAL
RateLimited(n, last) == n - last < HEALTH_CHECK_INTERVAL

\* A mutant of KeepPort: a member is kept for one unreachable cycle only.
KeepPort_one_cycle(connected, port, instances) ==
    connected \/ (port \in DOMAIN instances /\ instances[port].connected)

\* A mutant of KeepPort: every probed port is listed.
KeepPort_unanswered(connected, port, instances) ==
    connected \/ ~connected

\* line 290: the port goes into new_instances
KeepPort(connected, port, instances) ==
    connected \/ port \in DOMAIN instances

\* line 291
Label(port) ==
    IF port = 8081 THEN <<"Host">> ELSE <<"Clone", port - 8081 - 1>>

\* A mutant of WithPrimary: an unreachable primary is not added.
WithPrimary_if_alive(instances, port, alive) ==
    IF port \notin DOMAIN instances /\ alive
    THEN instances @@ (port :> [connected |-> alive, label |-> <<"Host">>])
    ELSE instances

\* lines 295-296
WithPrimary(instances, port, alive) ==
    IF port \notin DOMAIN instances
    THEN instances @@ (port :> [connected |-> alive, label |-> <<"Host">>])
    ELSE instances

\* Where check_unity_health returns to.
Return(t) == IF t = "health" THEN "log" ELSE "status_instances"

\* lines 276-278: read the clock and compare
Check(t) ==
    /\ pc[t] = "check"
    /\ IF RateLimited(now, last_unity_check)
       THEN /\ Goto(t, Return(t))
            /\ UNCHANGED now_l
       ELSE /\ Goto(t, "stamp")
            /\ now_l' = [now_l EXCEPT ![t] = now]
    /\ UNCHANGED <<env_vars, unity_port, registry_vars, focus_vars,
                   primary_alive, port_i, new_instances, health_vars,
                   request_vars>>

\* line 280
Stamp(t) ==
    /\ pc[t] = "stamp"
    /\ last_unity_check' = now_l[t]
    /\ Goto(t, "primary")
    /\ UNCHANGED <<env_vars, unity_port, unity_connected, unity_instances,
                   focus_vars, refresh_vars, health_vars, request_vars>>

\* lines 283-287: _ping_port(unity_port), whatever the backend answers
ProbePrimary(t) ==
    /\ pc[t] = "primary"
    /\ \E alive \in BOOLEAN :
        /\ primary_alive' = [primary_alive EXCEPT ![t] = alive]
        /\ unity_connected' = alive
    /\ new_instances' = [new_instances EXCEPT ![t] = EmptyMap]
    /\ port_i' = [port_i EXCEPT ![t] = FirstPort]
    /\ Goto(t, "ports")
    /\ UNCHANGED <<env_vars, unity_port, last_unity_check, unity_instances,
                   focus_vars, now_l, health_vars, request_vars>>

\* lines 288-292: one round of the loop over DISCOVERY_PORTS
ProbePort(t) ==
    /\ pc[t] = "ports"
    /\ LET port == port_i[t] IN
       \E pinged \in BOOLEAN :
        LET connected == IF port # unity_port THEN pinged ELSE primary_alive[t]
        IN  /\ new_instances' =
                 [new_instances EXCEPT ![t] =
                    IF KeepPort(connected, port, unity_instances)
                    THEN @ @@ (port :> [connected |-> connected,
                                        label |-> Label(port)])
                    ELSE @]
            /\ IF port + 1 \in DISCOVERY_PORTS
               THEN /\ port_i' = [port_i EXCEPT ![t] = port + 1]
                    /\ UNCHANGED pc
               ELSE /\ port_i' = [port_i EXCEPT ![t] = 0]
                    /\ Goto(t, "commit")
    /\ UNCHANGED <<env_vars, unity_port, registry_vars, focus_vars, now_l,
                   primary_alive, health_vars, request_vars>>

\* lines 294-299
Commit(t) ==
    /\ pc[t] = "commit"
    /\ unity_instances' =
           WithPrimary(new_instances[t], unity_port, primary_alive[t])
    /\ new_instances' = [new_instances EXCEPT ![t] = EmptyMap]
    /\ now_l' = [now_l EXCEPT ![t] = 0]
    /\ primary_alive' = [primary_alive EXCEPT ![t] = FALSE]
    /\ Goto(t, Return(t))
    /\ UNCHANGED <<env_vars, unity_port, unity_connected, last_unity_check,
                   focus_vars, port_i, health_vars, request_vars>>

check_unity_health(t) ==
    Check(t) \/ Stamp(t) \/ ProbePrimary(t) \/ ProbePort(t) \/ Commit(t)

(***************************************************************************)
(* health_check_loop, after check_unity_health has returned.  The loop     *)
(* over unity_instances.items() at lines 455-463 writes one line for every *)
(* member whose flag differs from prev_states, or that prev_states does    *)
(* not have; line 464 reads unity_instances again for prev_states, and     *)
(* then the thread sleeps for HEALTH_CHECK_INTERVAL.                       *)
(***************************************************************************)
LogLine(port, info) ==
    [level |-> IF info.connected THEN "info" ELSE "warning",
     connected |-> info.connected, label |-> info.label, port |-> port]

Changed(states, port, info) ==
    port \notin DOMAIN states \/ states[port] # info.connected

LogChanges ==
    /\ pc["health"] = "log"
    /\ log' = {LogLine(p, unity_instances[p]) :
                  p \in {q \in DOMAIN unity_instances :
                            Changed(prev_states, q, unity_instances[q])}}
    /\ Goto("health", "remember")
    /\ UNCHANGED <<env_vars, unity_port, registry_vars, focus_vars,
                   refresh_vars, wake_at, prev_states, request_vars>>

Sleep ==
    /\ pc["health"] = "remember"
    /\ prev_states' = [p \in DOMAIN unity_instances |->
                          unity_instances[p].connected]
    /\ wake_at' = now + HEALTH_CHECK_INTERVAL
    /\ log' = {}
    /\ Goto("health", "sleep")
    /\ UNCHANGED <<env_vars, unity_port, registry_vars, focus_vars,
                   refresh_vars, request_vars>>

\* A mutant of Wake: the timer waits for the server to leave the retry loop.
Wake_after_forwarding ==
    /\ pc["health"] = "sleep"
    /\ pc["server"] # "forward"
    /\ now >= wake_at
    /\ wake_at' = 0
    /\ Goto("health", "check")
    /\ UNCHANGED <<env_vars, unity_port, registry_vars, focus_vars,
                   refresh_vars, prev_states, log, request_vars>>

Wake ==
    /\ pc["health"] = "sleep"
    /\ now >= wake_at
    /\ wake_at' = 0
    /\ Goto("health", "check")
    /\ UNCHANGED <<env_vars, unity_port, registry_vars, focus_vars,
                   refresh_vars, prev_states, log, request_vars>>

health_check_loop ==
    check_unity_health("health") \/ LogChanges \/ Sleep \/ Wake

\* Time passes.  The program compares differences of time.time() with
\* HEALTH_CHECK_INTERVAL only, so the clock is advanced by whole intervals:
\* steps with no Tick between them are less than an interval apart.
Tick ==
    /\ now < HEALTH_CHECK_INTERVAL * (1 + MaxIntervals)
    /\ now' = now + HEALTH_CHECK_INTERVAL
    /\ UNCHANGED <<platform, settings_file, unity_port, registry_vars,
                   focus_vars, pc, refresh_vars, health_vars, request_vars>>

(***************************************************************************)
(* do_GET.                                                                 *)
(***************************************************************************)
\* A mutant of SortedInstances: the list is in descending order.
SortedInstances_descending(instances) ==
    LET ports == DOMAIN instances
        n == Cardinality(ports)
        order == CHOOSE s \in [1 .. n -> ports] :
                    \A i, j \in 1 .. n : i < j => s[i] > s[j]
    IN  [i \in 1 .. n |->
            [port |-> order[i], connected |-> instances[order[i]].connected,
             label |-> instances[order[i]].label]]

\* sorted(unity_instances.items()), as the list of lines 346-349
SortedInstances(instances) ==
    LET ports == DOMAIN instances
        n == Cardinality(ports)
        order == CHOOSE s \in [1 .. n -> ports] :
                    \A i, j \in 1 .. n : i < j => s[i] < s[j]
    IN  [i \in 1 .. n |->
            [port |-> order[i], connected |-> instances[order[i]].connected,
             label |-> instances[order[i]].label]]

\* lines 350-356
StatusDocument(instances) ==
    [status |-> 200, sidecar |-> "running",
     unity_connected |-> unity_connected, unity_port |-> unity_port,
     auto_focus |-> auto_focus_enabled, instances |-> instances]

\* line 344: the path decides
do_GET ==
    /\ pc["server"] = "idle"
    /\ \E url \in Paths :
        /\ path' = url
        /\ IF url = "/status"
           THEN /\ Goto("server", "check")
                /\ UNCHANGED response
           ELSE /\ response' = [status |-> 404]
                /\ Goto("server", "responded")
        /\ UNCHANGED <<body_bytes, request_id, attempt, last_error,
                       status_doc, sent, refused_only, unity_reply>>
    /\ UNCHANGED <<env_vars, unity_port, registry_vars, focus_vars,
                   refresh_vars, health_vars>>

\* lines 346-349
StatusInstances ==
    /\ pc["server"] = "status_instances"
    /\ status_doc' = SortedInstances(unity_instances)
    /\ Goto("server", "status_flags")
    /\ UNCHANGED <<env_vars, unity_port, registry_vars, focus_vars,
                   refresh_vars, health_vars, path, body_bytes,
                   request_id, attempt,
                   last_error, response, sent, refused_only, unity_reply>>

\* lines 350-363
StatusRespond ==
    /\ pc["server"] = "status_flags"
    /\ response' = StatusDocument(status_doc)
    /\ Goto("server", "responded")
    /\ UNCHANGED <<env_vars, unity_port, registry_vars, focus_vars,
                   refresh_vars, health_vars, path, body_bytes,
                   request_id, attempt,
                   last_error, status_doc, sent, refused_only, unity_reply>>

status ==
    do_GET \/ check_unity_health("server") \/ StatusInstances \/ StatusRespond

\* The handler returns and the server takes the next request.
FinishRequest ==
    /\ pc["server"] \in {"responded", "aborted"}
    /\ SetRequest(NoRequest)
    /\ Goto("server", "idle")
    /\ UNCHANGED <<env_vars, unity_port, registry_vars, focus_vars,
                   refresh_vars, health_vars>>

(***************************************************************************)
(* main: the state after startup, and a restart of the process.            *)
(***************************************************************************)
\* The module globals and the threads when main has started both threads.
Started(file) ==
    [unity_connected |-> FALSE, last_unity_check |-> 0,
     unity_instances |-> EmptyMap,
     previous_foreground_window |-> NoWindow,
     auto_focus_enabled |-> LoadSettings(file),
     pc |-> [t \in Threads |-> IF t = "health" THEN "check" ELSE "idle"],
     now_l |-> [t \in Threads |-> 0],
     primary_alive |-> [t \in Threads |-> FALSE],
     port_i |-> [t \in Threads |-> 0],
     new_instances |-> [t \in Threads |-> EmptyMap],
     wake_at |-> 0,
     prev_states |-> EmptyMap,
     log |-> {}]

Init ==
    /\ platform \in {"win32", "linux"}
    /\ settings_file \in {"missing", "true", "false"}
    \* time.time() is far above HEALTH_CHECK_INTERVAL: the first check passes
    /\ now = HEALTH_CHECK_INTERVAL
    /\ unity_port \in PrimaryPorts
    /\ unity_connected = Started(settings_file).unity_connected
    /\ last_unity_check = Started(settings_file).last_unity_check
    /\ unity_instances = Started(settings_file).unity_instances
    /\ previous_foreground_window =
           Started(settings_file).previous_foreground_window
    /\ auto_focus_enabled = Started(settings_file).auto_focus_enabled
    /\ pc = Started(settings_file).pc
    /\ now_l = Started(settings_file).now_l
    /\ primary_alive = Started(settings_file).primary_alive
    /\ port_i = Started(settings_file).port_i
    /\ new_instances = Started(settings_file).new_instances
    /\ wake_at = Started(settings_file).wake_at
    /\ prev_states = Started(settings_file).prev_states
    /\ log = Started(settings_file).log
    /\ path = NoRequest.path
    /\ body_bytes = NoRequest.body_bytes
    /\ request_id = NoRequest.request_id
    /\ attempt = NoRequest.attempt
    /\ last_error = NoRequest.last_error
    /\ status_doc = NoRequest.status_doc
    /\ response = NoRequest.response
    /\ sent = NoRequest.sent
    /\ refused_only = NoRequest.refused_only
    /\ unity_reply = NoRequest.unity_reply

\* The process is stopped and started again with the same command line.
Restart ==
    /\ unity_connected' = Started(settings_file).unity_connected
    /\ last_unity_check' = Started(settings_file).last_unity_check
    /\ unity_instances' = Started(settings_file).unity_instances
    /\ previous_foreground_window' =
           Started(settings_file).previous_foreground_window
    /\ auto_focus_enabled' = Started(settings_file).auto_focus_enabled
    /\ pc' = Started(settings_file).pc
    /\ now_l' = Started(settings_file).now_l
    /\ primary_alive' = Started(settings_file).primary_alive
    /\ port_i' = Started(settings_file).port_i
    /\ new_instances' = Started(settings_file).new_instances
    /\ wake_at' = Started(settings_file).wake_at
    /\ prev_states' = Started(settings_file).prev_states
    /\ log' = Started(settings_file).log
    /\ SetRequest(NoRequest)
    /\ UNCHANGED <<platform, settings_file, now, unity_port>>

(***************************************************************************)
(* The specifications.  Spec is the whole program.  SpecServer is the      *)
(* server handling POST requests, across restarts; SpecRegistry is the     *)
(* registry: the health-check thread and GET requests, while time passes.  *)
(* The two parts share no variable but unity_port, which neither writes.   *)
(***************************************************************************)
NextServer == do_POST \/ ForwardOk \/ ForwardFail \/ FinishRequest \/ Restart

NextRegistry == health_check_loop \/ status \/ FinishRequest \/ Tick

Next == NextServer \/ NextRegistry

Spec == Init /\ [][Next]_vars

\* The server's own state does not depend on where the health-check thread
\* is, nor the registry on the platform and the settings file.
InitServer == Init /\ unity_port \in {FirstPort, OutsidePort}

InitRegistry == Init /\ platform = "win32" /\ settings_file = "true"

\* The status path beside the requests that set the preference: the server
\* answers GET and the preference requests, the health-check thread runs
\* the round it starts with, and the process can be restarted.
NextStatus ==
    \/ POST(PreferenceBodies)
    \/ check_unity_health("health")
    \/ status
    \/ FinishRequest
    \/ Restart
InitStatus == Init /\ platform = "win32" /\ settings_file \in {"true", "false"}
SpecStatus == InitStatus /\ [][NextStatus]_vars

\* The whole gateway on Windows, for what each operation leaves alone: the
\* server answers the local actions, forwards a request that Unity answers
\* and serves GET, the health-check thread runs the round it starts with,
\* and the process can be restarted.
FrameBodies ==
    {b \in Bodies : /\ Route(b) \in {"local", "forward"}
                    /\ b.method \in {"tools/call", "tools/list"}
                    /\ b.action # Absent \/ b.method = "tools/list"
                    /\ b.id = "n:1"}
NextFrame ==
    \/ POST(FrameBodies)
    \/ ForwardOk
    \/ check_unity_health("health")
    \/ status
    \/ FinishRequest
    \/ Restart
InitFrame ==
    Init /\ platform = "win32" /\ settings_file = "false"
         /\ unity_port = FirstPort
SpecFrame == InitFrame /\ [][NextFrame]_vars

\* The forwarding of requests in a process that keeps running.  An attempt
\* ends: urlopen is called with timeout=REQUEST_TIMEOUT and time.sleep
\* returns, so the step that ends a pending attempt is taken eventually.
ForwardedBodies == {b \in Bodies : Route(b) = "forward"}
NextForward ==
    \/ POST(ForwardedBodies)
    \/ ForwardOk
    \/ ForwardFail
    \/ FinishRequest
SpecForward ==
    /\ InitServer
    /\ [][NextForward]_vars
    /\ WF_vars(ForwardOk \/ ForwardFail)

\* The refresh rounds alone, while time passes: the round the health-check
\* thread starts with, beside and before the rounds of GET requests.
NextRounds ==
    \/ check_unity_health("health")
    \/ status
    \/ FinishRequest
    \/ Tick
SpecRounds == InitRegistry /\ [][NextRounds]_vars

\* The health-check thread beside a server that forwards requests, while
\* time passes.  main starts health_check_loop in a thread of its own
\* (lines 497-498), whose probes end by their timeout and whose sleep
\* returns: a step of the thread that can be taken is taken eventually.
\* Nothing is assumed of the server thread, which may stay in its retry
\* loop for as long as it likes.
TimerBodies ==
    {b \in ForwardedBodies : b.method = "tools/list" /\ b.id = "n:1"}
NextTimer ==
    \/ POST(TimerBodies)
    \/ ForwardOk
    \/ ForwardFail
    \/ FinishRequest
    \/ health_check_loop
    \/ Tick
InitTimer == InitRegistry /\ unity_port = FirstPort
SpecTimer ==
    /\ InitTimer
    /\ [][NextTimer]_vars
    /\ WF_vars(health_check_loop)

SpecServer == InitServer /\ [][NextServer]_vars

SpecRegistry == InitRegistry /\ [][NextRegistry]_vars

(***************************************************************************)
(* The properties.                                                         *)
(***************************************************************************)
Responded == pc["server"] = "responded"

\* The envelope asks for one of the four actions the sidecar answers itself.
IsLocalEnvelope(body) ==
    /\ body.shape = "object"
    /\ body.method = "tools/call"
    /\ body.name = "manage_editor"
    /\ body.action \in {"focus", "restore_focus", "set_auto_focus",
                         "get_settings"}

\* The result dict inside a sidecar-handled envelope.
ResultOf(resp) == resp.result.content[1].text

\* Every attempt made for the request was refused, and none was answered.
AllRefused == sent > 0 /\ refused_only /\ unity_reply = None

\* C1: a POST whose envelope is a local action (tools/call, manage_editor,
\* action focus, restore_focus, set_auto_focus or get_settings) is answered
\* by the gateway itself: it has its response, no call of forward_to_unity
\* was made for it, and none is pending, whatever Unity would answer.
C1_LocalNeverForwarded ==
    IsLocalEnvelope(body_bytes) =>
        /\ Responded
        /\ sent = 0
        /\ unity_reply = None
        /\ response.status = 200
        /\ "result" \in DOMAIN response

\* C1 witness: a get_settings request has been answered by the sidecar.
C1_Witness ==
    /\ Responded
    /\ IsLocalEnvelope(body_bytes)
    /\ body_bytes.action = "get_settings"
    /\ platform = "win32"
    /\ ResultOf(response).handled_by = "sidecar"

\* C2: when every attempt of a forwarded request is refused, the request is
\* answered after exactly MAX_RETRIES attempts, not before and with no
\* attempt more, by an error envelope carrying the id of the request.
C2_RetriesThenError ==
    AllRefused =>
        /\ sent <= MAX_RETRIES
        /\ Responded <=> sent = MAX_RETRIES
        /\ Responded =>
              /\ "error" \in DOMAIN response
              /\ body_bytes.shape = "object" /\ body_bytes.id # Absent
                    => response.id = body_bytes.id

\* C2 witness: thirty refusals, and the error envelope carries the id "1".
C2_Witness ==
    /\ Responded
    /\ AllRefused
    /\ sent = 30
    /\ body_bytes.id = "s:1"
    /\ response.id = "s:1"

\* C3: when the attempts before attempt k were refused and attempt k is
\* answered, the client gets exactly the bytes Unity answered with, and
\* attempt k is the last one.
C3_SuccessIsVerbatim ==
    (unity_reply # None /\ refused_only) =>
        /\ Responded
        /\ response = [status |-> 200, raw |-> unity_reply]
        /\ sent = attempt + 1

\* C3 witness: two refusals, then an answer on the third attempt.
C3_Witness ==
    /\ Responded
    /\ refused_only
    /\ sent = 3
    /\ attempt = 2
    /\ unity_reply = "unity-body-2"

\* C10: when forwarding fails, because the retries are used up or because
\* an attempt failed for good, the response has HTTP status 200 and is an
\* error envelope with code -32000 whose message names unity_port.
C10_ForwardFailureEnvelope ==
    (Responded /\ sent > 0 /\ unity_reply = None) =>
        /\ response.status = 200
        /\ "error" \in DOMAIN response
        /\ "result" \notin DOMAIN response
        /\ response.error.code = -32000
        /\ response.error.message[2] = unity_port

\* C10 witness: the second attempt failed for good (the answer broke off),
\* with the primary port outside of the discovery range.
C10_Witness ==
    /\ Responded
    /\ sent = 2
    /\ attempt = 1
    /\ unity_reply = None
    /\ ~refused_only
    /\ unity_port = OutsidePort
    /\ response.error.message[2] = OutsidePort

\* The step is the handling, on Windows, of a request for the local action.
Handled(action) ==
    /\ platform = "win32"
    /\ pc["server"] = "idle"
    /\ pc'["server"] = "responded"
    /\ IsLocalEnvelope(body_bytes')
    /\ body_bytes'.action = action

\* What C8 says of one step.
RestoreFocusStep ==
    /\ (previous_foreground_window = NoWindow /\ ~Handled("focus"))
          => previous_foreground_window' = NoWindow
    /\ Handled("focus") => previous_foreground_window' # NoWindow
    /\ (previous_foreground_window # NoWindow
          /\ ~Handled("focus") /\ ~Handled("restore_focus") /\ ~Restart)
          => previous_foreground_window' = previous_foreground_window
    /\ (Handled("restore_focus") /\ previous_foreground_window = NoWindow)
          => /\ ResultOf(response').success = FALSE
             /\ ResultOf(response').error = "No previous window saved. Call 'focus' first to save the previous window."
    /\ (Handled("restore_focus") /\ previous_foreground_window # NoWindow)
          => /\ ResultOf(response').success = TRUE
             /\ "error" \notin DOMAIN ResultOf(response')
             /\ previous_foreground_window' = NoWindow

\* C8: on Windows (elsewhere every local action fails as unsupported),
\* no reference is saved at startup and none appears but by a focus; a
\* restore_focus handled while no reference is saved fails with the "No
\* previous window saved" error; a focus saves a reference, which stays
\* until a restore_focus or a restart; a restore_focus handled while a
\* reference is saved succeeds and clears it.  So restore_focus without a
\* focus since startup or since the last restore_focus fails, and of two
\* restore_focus after a focus the first succeeds and the second fails.
C8_RestoreFocusOneShot ==
    /\ previous_foreground_window = NoWindow
    /\ [][RestoreFocusStep]_vars

\* C8 witness: a restore_focus has succeeded and cleared the reference a
\* focus had saved.
C8_Witness ==
    /\ Responded
    /\ platform = "win32"
    /\ IsLocalEnvelope(body_bytes)
    /\ body_bytes.action = "restore_focus"
    /\ ResultOf(response).success = TRUE
    /\ previous_foreground_window = NoWindow

\* A set_auto_focus request has just been answered, on Windows.
SetPreferenceAnswered ==
    /\ platform = "win32"
    /\ Responded
    /\ IsLocalEnvelope(body_bytes)
    /\ body_bytes.action = "set_auto_focus"

\* C9: when the process is restarted after a set_auto_focus request was
\* answered, the preference after the restart, which is what get_settings
\* returns, is the value that request set and echoed.
C9_PreferenceSurvivesRestart ==
    [][ (SetPreferenceAnswered /\ Restart)
          => auto_focus_enabled' = ResultOf(response).auto_focus ]_vars

\* Thread t has passed the rate limit and has issued a probe.
Probing(t) == pc[t] \in {"ports", "commit"}

\* C4: of two calls of check_unity_health that read the clock less than
\* HEALTH_CHECK_INTERVAL apart, one from the health-check thread and one
\* from GET /status, at most one is probing.
C4_OneRoundPerInterval ==
    ~ /\ Probing("health")
      /\ Probing("server")
      /\ now_l["health"] = now_l["server"]

\* The addresses of the discovery range other than the primary one.
NonPrimary == DISCOVERY_PORTS \ {unity_port}

\* The step is thread t writing the membership its round has built.
CommitStep(t) == pc[t] = "commit" /\ pc'[t] # "commit"

\* The step is thread t probing port p in the loop over DISCOVERY_PORTS.
ProbeStep(t, p) == pc[t] = "ports" /\ port_i[t] = p /\ port_i'[t] # p

\* The round of thread t has found port p unreachable.
FoundUnreachable(t, p) ==
    p \notin DOMAIN new_instances[t] \/ ~new_instances[t][p].connected

\* C5: when a round that found a non-primary address of the discovery
\* range unreachable writes the membership, and the snapshot of the cycle
\* before has the address as connected, the snapshot after the round still
\* has the address, with connected = false.
C5_StaleForOneCycle ==
    [][ \A t \in Threads, p \in NonPrimary :
          (/\ CommitStep(t)
           /\ p \in DOMAIN unity_instances
           /\ unity_instances[p].connected
           /\ FoundUnreachable(t, p))
          => /\ p \in DOMAIN unity_instances'
             /\ ~unity_instances'[p].connected ]_vars

C7_PrimaryAlwaysMember ==
    [][ /\ (\E t \in Threads : CommitStep(t))
              => unity_port \in DOMAIN unity_instances'
        /\ unity_port \in DOMAIN unity_instances
              => unity_port \in DOMAIN unity_instances' ]_vars

\* C7 witness: a second cycle has been completed (an address of the range
\* has gone from reachable to unreachable) and the primary address,
\* outside of the discovery range and unreachable, is a member.
C7_Witness ==
    /\ unity_port = OutsidePort
    /\ last_unity_check > HEALTH_CHECK_INTERVAL
    /\ \A t \in Threads : pc[t] \notin {"stamp", "primary", "ports", "commit"}
    /\ unity_port \in DOMAIN unity_instances
    /\ ~unity_instances[unity_port].connected
    /\ ~unity_connected
    /\ \E p \in DISCOVERY_PORTS :
          p \in DOMAIN unity_instances /\ ~unity_instances[p].connected

\* C11: a POST whose path is not "/" is answered with 404 and no call of
\* forward_to_unity is made for it.
C11_UnknownPathNotFound ==
    (body_bytes # NoBody /\ path # "/") =>
        /\ sent = 0
        /\ pc["server"] # "forward"
        /\ Responded => response.status = 404

\* What C12 says of one step.
UnsupportedStep ==
    (platform # "win32" /\ IsLocalEnvelope(body_bytes')) =>
        /\ pc'["server"] = "responded"
        /\ sent' = 0
        /\ unity_reply' = None
        /\ "result" \in DOMAIN response'
        /\ ResultOf(response') =
              [success |-> FALSE,
               error |-> "Window focus management is only supported on Windows."]
        /\ auto_focus_enabled' = auto_focus_enabled
        /\ settings_file' = settings_file
        /\ previous_foreground_window' = previous_foreground_window

\* C12: where sys.platform is not win32, a request for any of the four
\* local actions is answered by the sidecar with the one failure "Window
\* focus management is only supported on Windows.", leaves the preference,
\* the settings file and the saved window as they were, and is not
\* forwarded to Unity.
C12_UnsupportedPlatform == [][UnsupportedStep]_vars

\* C12 witness: off Windows, a set_auto_focus with enabled true has been
\* answered with the failure and the preference is still false.
C12_Witness ==
    /\ platform = "linux"
    /\ Responded
    /\ IsLocalEnvelope(body_bytes)
    /\ body_bytes.action = "set_auto_focus"
    /\ body_bytes.enabled = "true"
    /\ ResultOf(response).success = FALSE
    /\ ~auto_focus_enabled
    /\ settings_file = "false"

\* C13: a POST is never left without a response: whatever its body, the
\* handler does not end by an exception before it has written one.
C13_EveryPostAnswered ==
    body_bytes # NoBody => pc["server"] # "aborted"

\* C14: an attempt that failed after the connection was made (here: the
\* body was sent and no answer came within REQUEST_TIMEOUT) ends the loop:
\* no further attempt is pending after it.
C14_RetryOnlyBeforeResponse ==
    last_error = "timeout" => pc["server"] # "forward"

\* The response is an envelope the sidecar made itself.
Synthesized == "jsonrpc" \in DOMAIN response

\* C15: an envelope the sidecar makes itself, the result of a local action
\* or the error after a failed forwarding, for a request that parsed to an
\* object with an id, has that id, with its value and its type.
C15_IdCopied ==
    (/\ Responded
     /\ Synthesized
     /\ body_bytes.shape = "object"
     /\ body_bytes.id # Absent)
    => response.id = body_bytes.id

\* C15 witness: the error envelope of a request with the number 1 as id
\* has the number 1 as id.
C15_Witness ==
    /\ Responded
    /\ "error" \in DOMAIN response
    /\ body_bytes.id = "n:1"
    /\ response.id = "n:1"
    /\ sent = 1

\* C16: the envelope that answers a local action has a result field and no
\* error field, also when the action failed; the failure is in the result,
\* as success = false and an error text.
C16_DomainFailureInResult ==
    (Responded /\ IsLocalEnvelope(body_bytes)) =>
        /\ response.status = 200
        /\ "result" \in DOMAIN response
        /\ "error" \notin DOMAIN response
        /\ ResultOf(response).success = FALSE
              => "error" \in DOMAIN ResultOf(response)

\* C16 witness: a focus that did not find the window of Unity has been
\* answered.
C16_Witness ==
    /\ Responded
    /\ platform = "win32"
    /\ IsLocalEnvelope(body_bytes)
    /\ body_bytes.action = "focus"
    /\ "result" \in DOMAIN response
    /\ ResultOf(response).success = FALSE
    /\ ResultOf(response).error =
          "Could not find Unity Editor window. Is Unity running?"

\* C17: in the membership, the primary address has the label "Host" and
\* no other address has it.
C17_HostIsPrimary ==
    \A p \in DOMAIN unity_instances :
        unity_instances[p].label = <<"Host">> <=> p = unity_port

\* A GET /status has been answered with the status document.
StatusAnswered ==
    /\ Responded
    /\ path = "/status"
    /\ "instances" \in DOMAIN response

\* C19: the instance list of every answer to GET /status has the primary
\* address.
C19_StatusListsPrimary ==
    StatusAnswered =>
        \E i \in DOMAIN response.instances :
            response.instances[i].port = unity_port

\* C20: in every answer to GET /status, unity_connected is the connected
\* flag of the entry of the primary address in the instance list.
C20_FlagMatchesPrimaryEntry ==
    StatusAnswered =>
        \A i \in DOMAIN response.instances :
            response.instances[i].port = unity_port
                => response.instances[i].connected = response.unity_connected

\* The list has one entry for each member of the map, with its flag and
\* its label, in ascending order of the ports.
SortedListOf(list, instances) ==
    /\ \A i, j \in DOMAIN list : i < j => list[i].port < list[j].port
    /\ {list[i].port : i \in DOMAIN list} = DOMAIN instances
    /\ \A i \in DOMAIN list :
          /\ list[i].connected = instances[list[i].port].connected
          /\ list[i].label = instances[list[i].port].label

\* What C18 says of one step.
StatusStep ==
    /\ (pc["server"] = "status_instances" /\ pc'["server"] = "status_flags")
          => SortedListOf(status_doc', unity_instances)
    /\ (pc["server"] = "status_flags" /\ pc'["server"] = "responded")
          => /\ response'.status = 200
             /\ response'.instances = status_doc
             /\ response'.unity_connected = unity_connected
             /\ response'.unity_port = unity_port
             /\ response'.auto_focus = auto_focus_enabled
    /\ Handled("set_auto_focus")
          => /\ ResultOf(response').success = TRUE
             /\ auto_focus_enabled' = ResultOf(response').auto_focus
    /\ Restart => auto_focus_enabled' = (settings_file = "true")
    /\ (~Handled("set_auto_focus") /\ ~Restart)
          => auto_focus_enabled' = auto_focus_enabled

\* C18: the answer to GET /status has the members of unity_instances as
\* a list in ascending order of the ports, unity_connected, unity_port and
\* the preference in memory, each as it is when do_GET reads it; and the
\* preference in memory is the value the last set_auto_focus that was
\* answered with success has set, or the value loaded at startup when
\* there was none since.
C18_StatusDocument == [][StatusStep]_vars

\* C18 witness: a GET /status has been answered with two instances and
\* the preference true, which a set_auto_focus has set in memory while the
\* settings file still says false.
C18_Witness ==
    /\ StatusAnswered
    /\ Len(response.instances) = 2
    /\ response.instances[1].port < response.instances[2].port
    /\ response.auto_focus = TRUE
    /\ settings_file = "false"

\* Thread t is inside a round of check_unity_health, after line 280.
InRound(t) == pc[t] \in {"primary", "ports", "commit"}

\* C21: the rounds of check_unity_health are serialized: the health-check
\* thread and the server thread are never inside a round at the same time
\* (so that no round can write its membership over that of a round that
\* started after it).
C21_RoundsSerialized ==
    ~(InRound("health") /\ InRound("server"))

\* C22: an address of the discovery range that is in the membership is in
\* the membership after every step, whatever the probes answer.
C22_MemberForGood ==
    [][ \A p \in DISCOVERY_PORTS :
          p \in DOMAIN unity_instances => p \in DOMAIN unity_instances' ]_vars

\* The members of the membership other than the primary address.
NonPrimaryMembers == DOMAIN unity_instances \ {unity_port}

\* C23: the k-th of the non-primary members, in ascending order of the
\* ports and counted from 0, has the label "Clone k".
C23_ClonesNumberedInOrder ==
    \A p \in NonPrimaryMembers :
        unity_instances[p].label =
            <<"Clone", Cardinality({q \in NonPrimaryMembers : q < p})>>

(***************************************************************************)
(* C24.  For every member, each change of its connected flag from one      *)
(* refresh round to the next produces one log line, whichever thread ran   *)
(* the rounds: when a round replaces a member's flag by a different one,   *)
(* the flag it replaces has been seen by the logging pass, so that the     *)
(* pass after it finds the change.                                         *)
(***************************************************************************)
Logged(p) ==
    /\ p \in DOMAIN prev_states
    /\ prev_states[p] = unity_instances[p].connected
    /\ pc["health"] # "remember"

FlagChanges(p) ==
    /\ p \in DOMAIN unity_instances
    /\ p \in DOMAIN unity_instances'
    /\ unity_instances'[p].connected # unity_instances[p].connected

C24_EveryChangeLogged ==
    [][ \A p \in PrimaryPorts : FlagChanges(p) => Logged(p) ]_vars

(***************************************************************************)
(* C25.  A non-primary address is a member only if a probe of it has       *)
(* succeeded in this or an earlier round.  Stated as the two steps by      *)
(* which an address can become a member: a round takes a non-primary       *)
(* address into its new_instances only in the step that probes it, and     *)
(* only if the probe succeeded or the address is a member already; and a   *)
(* non-primary address enters unity_instances only when a round writes a   *)
(* new_instances that has it.  So the first entry of an address is by a    *)
(* successful probe.                                                       *)
(***************************************************************************)
EntersRound(t, p) ==
    p \in DOMAIN new_instances'[t] /\ p \notin DOMAIN new_instances[t]

EntersRegistry(p) ==
    p \in DOMAIN unity_instances' /\ p \notin DOMAIN unity_instances

C25_MemberOnlyIfAnswered ==
    [][ \A p \in NonPrimary :
          /\ \A t \in Threads :
                EntersRound(t, p)
                  => /\ ProbeStep(t, p)
                     /\ \/ new_instances'[t][p].connected
                        \/ p \in DOMAIN unity_instances
          /\ EntersRegistry(p)
                  => \E t \in Threads :
                        CommitStep(t) /\ p \in DOMAIN new_instances[t] ]_vars

\* A non-primary address that answered a probe in an earlier round is a
\* member, found unreachable since, beside one that is not a member.
C25_Witness ==
    /\ \A t \in Threads : ~InRound(t)
    /\ \E p \in NonPrimary :
          p \in DOMAIN unity_instances /\ ~unity_instances[p].connected
    /\ \E p \in NonPrimary : p \notin DOMAIN unity_instances

(***************************************************************************)
(* C26.  When a set_auto_focus request has been answered, the settings     *)
(* file holds the preference that is in memory, which is the value the     *)
(* response echoes, however the write of the file ended.                   *)
(***************************************************************************)
Stored(enabled) == IF enabled THEN "true" ELSE "false"

C26_StoredEqualsEchoed ==
    SetPreferenceAnswered =>
        /\ auto_focus_enabled = ResultOf(response).auto_focus
        /\ settings_file = Stored(auto_focus_enabled)

(***************************************************************************)
(* C27.  focus saves the caller's foreground window before it looks for    *)
(* the Unity window: a step that handles a focus request for which         *)
(* GetForegroundWindow returned fg and _find_unity_hwnd returned           *)
(* unity_hwnd leaves fg as the saved reference, whatever was saved before, *)
(* also when unity_hwnd is none and the answer is 'Could not find Unity    *)
(* Editor window'; and the restore_focus after it, finding a reference,    *)
(* succeeds and consumes it.                                               *)
(***************************************************************************)
FocusStepWith(fg, unity_hwnd, focused) ==
    /\ Handled("focus")
    /\ previous_foreground_window' = FocusAction(fg, unity_hwnd, focused).prev
    /\ ResultOf(response') = FocusAction(fg, unity_hwnd, focused).result

FocusCapturesFirst ==
    /\ \A fg \in Hwnds \cup {NoneHwnd}, unity_hwnd \in Hwnds \cup {NoWindow},
          focused \in BOOLEAN :
          FocusStepWith(fg, unity_hwnd, focused)
            => /\ previous_foreground_window' = fg
               /\ unity_hwnd = NoWindow
                    => ResultOf(response') = NotFoundResult
    /\ Handled("focus")
         => \E fg \in Hwnds \cup {NoneHwnd},
               unity_hwnd \in Hwnds \cup {NoWindow}, focused \in BOOLEAN :
               FocusStepWith(fg, unity_hwnd, focused)
    /\ (Handled("restore_focus") /\ previous_foreground_window # NoWindow)
         => /\ ResultOf(response').success
            /\ previous_foreground_window' = NoWindow

C27_FocusCapturesFirst == [][FocusCapturesFirst]_vars

\* A focus that did not find the Unity window has been answered, and the
\* reference it saved is a window handle.
C27_Witness ==
    /\ Responded
    /\ platform = "win32"
    /\ IsLocalEnvelope(body_bytes)
    /\ body_bytes.action = "focus"
    /\ ResultOf(response) = NotFoundResult
    /\ previous_foreground_window \in Hwnds

(***************************************************************************)
(* C28.  On Windows, a get_settings request changes nothing: not the       *)
(* preference, the settings file, the saved reference or the registry; and *)
(* the has_previous_window it reports is true exactly when a reference is  *)
(* saved, which is from a focus until the restore_focus that consumes it   *)
(* (or the end of the process): the reference starts unsaved, only focus   *)
(* saves one and only restore_focus or a restart clears it.                *)
(***************************************************************************)
Saved == previous_foreground_window # NoWindow

ReadSettingsStep ==
    /\ Handled("get_settings")
         => /\ UNCHANGED <<auto_focus_enabled, settings_file,
                           previous_foreground_window, registry_vars>>
            /\ ResultOf(response').success
            /\ ResultOf(response').has_previous_window = Saved
            /\ ResultOf(response').auto_focus = auto_focus_enabled
    /\ (~Saved /\ Saved') => Handled("focus")
    /\ (Saved /\ ~Saved') => (Handled("restore_focus") \/ Restart)
    /\ Handled("focus") => Saved'
    /\ Handled("restore_focus") => ~Saved'

C28_ReadSettingsPure ==
    /\ ~Saved
    /\ [][ReadSettingsStep]_vars

\* get_settings has reported a saved reference, while the registry has
\* members.
C28_Witness ==
    /\ Responded
    /\ IsLocalEnvelope(body_bytes)
    /\ body_bytes.action = "get_settings"
    /\ ResultOf(response).has_previous_window
    /\ Saved
    /\ unity_instances # EmptyMap

(***************************************************************************)
(* C29.  Each piece of the gateway's state has one writer.  The membership *)
(* and the primary-connected flag change only in a step of                 *)
(* check_unity_health, the preference and the settings file only in the    *)
(* handling of set_auto_focus, the saved reference only in the handling of *)
(* focus and restore_focus, all of them apart from the start of the        *)
(* process; so forwarding a request and serving GET change neither the     *)
(* preference nor the saved reference, and a local action does not change  *)
(* the registry.                                                           *)
(***************************************************************************)
RefreshWrites ==
    \E t \in Threads : pc[t] \in {"primary", "commit"} /\ pc'[t] # pc[t]

LocalStep == \E a \in FOCUS_ACTIONS : Handled(a)

\* The step leaves or reaches a state in which a request is being forwarded.
ForwardingStep ==
    /\ pc["server"] = "forward" \/ pc'["server"] = "forward"
    /\ ~Restart

\* The step reaches a state in which a GET request is being served.
ServingGet ==
    /\ path' \in Paths
    /\ body_bytes' = NoRequest.body_bytes
    /\ ~Restart

OneWriter ==
    /\ (unity_instances' # unity_instances \/ unity_connected' # unity_connected)
         => (RefreshWrites \/ Restart)
    /\ (auto_focus_enabled' # auto_focus_enabled
           \/ settings_file' # settings_file)
         => (Handled("set_auto_focus") \/ Restart)
    /\ previous_foreground_window' # previous_foreground_window
         => (Handled("focus") \/ Handled("restore_focus") \/ Restart)
    /\ (ForwardingStep \/ ServingGet)
         => UNCHANGED <<auto_focus_enabled, settings_file,
                        previous_foreground_window>>
    /\ LocalStep => UNCHANGED registry_vars

C29_OneWriter == [][OneWriter]_vars

\* A request is being forwarded while a round is writing, with a preference
\* set and a reference saved.
C29_Witness ==
    /\ pc["server"] = "forward"
    /\ pc["health"] = "commit"
    /\ auto_focus_enabled
    /\ Saved

(***************************************************************************)
(* C30.  Whatever Unity does on each attempt (refuses, answers, takes the  *)
(* body and does not answer within the timeout, breaks off its answer), a  *)
(* forwarded request is attempted at most MAX_RETRIES times and then has   *)
(* its response: none is retried forever.                                  *)
(***************************************************************************)
C30_RetryLoopEnds ==
    /\ [](sent <= MAX_RETRIES)
    /\ (pc["server"] = "forward") ~> Responded

\* A request has been answered with the error envelope after MAX_RETRIES
\* attempts that were not all refusals, the last one a timeout.
C30_Witness ==
    /\ Responded
    /\ sent = MAX_RETRIES
    /\ ~refused_only
    /\ last_error = "timeout"
    /\ "error" \in DOMAIN response

(***************************************************************************)
(* C31.  While a forwarded request is in its retry loop, the timer-driven  *)
(* refresh goes on: when the sleep of the health-check thread is over      *)
(* while the server is forwarding, the thread gets to writing the          *)
(* membership of a new round, whether or not the retry loop ever ends.     *)
(***************************************************************************)
TimerDue == pc["health"] = "sleep" /\ now >= wake_at

C31_TimerNotBlocked ==
    (TimerDue /\ pc["server"] = "forward") ~> (pc["health"] = "commit")

\* The round that was due after the first sleep is about to write the
\* membership, and the server is still in the retry loop of its request.
C31_Witness ==
    /\ pc["health"] = "commit"
    /\ now_l["health"] > HEALTH_CHECK_INTERVAL
    /\ pc["server"] = "forward"
    /\ attempt > 0

(***************************************************************************)
(* C32.  A request is answered by the sidecar itself exactly when its      *)
(* method is tools/call, its tool manage_editor and its action one of the  *)
(* four focus actions; every other request, whatever its body, is handed   *)
(* to forward_with_retry.                                                  *)
(***************************************************************************)
AnsweredLocally == Responded /\ sent = 0 /\ "result" \in DOMAIN response

HandedToForwarding == pc["server"] = "forward" \/ sent > 0

C32_LocalIffFocusAction ==
    body_bytes # NoBody =>
        IF IsLocalEnvelope(body_bytes)
        THEN AnsweredLocally /\ ~HandedToForwarding
        ELSE HandedToForwarding /\ ~AnsweredLocally

(***************************************************************************)
(* C33.  The saved reference does not survive the process: a restart       *)
(* leaves no reference saved, whatever a focus had captured before, so     *)
(* that restore_focus fails until a new focus; the preference has after    *)
(* the restart the value it had before.                                    *)
(***************************************************************************)
SessionLost ==
    /\ Restart => ~Saved'
    /\ (Handled("restore_focus") /\ ~Saved)
         => ResultOf(response') = NoPreviousResult

PreferenceKept == Restart => auto_focus_enabled' = auto_focus_enabled

C33_SessionNotPersisted == [][SessionLost /\ PreferenceKept]_vars

(***************************************************************************)
(* C34.  As claimed: when handle_focus_action returns a failure the        *)
(* envelope has an error field and no result field, and an envelope with   *)
(* a result field is written only when the handler succeeded.              *)
(***************************************************************************)
C34_FailureInErrorField ==
    (Responded /\ IsLocalEnvelope(body_bytes)) =>
        IF "result" \in DOMAIN response
        THEN ResultOf(response).success
        ELSE "error" \in DOMAIN response

\* The failures handle_focus_action returns.
HandlerFailures == {UnsupportedResult, NotFoundResult, NoPreviousResult}

(***************************************************************************)
(* C34, amended.  A failure of handle_focus_action is answered like a      *)
(* success: by an envelope with a result field that wraps the dict the     *)
(* handler returned, here success = false with the handler's error text;   *)
(* the sidecar writes an error field only for a request it forwarded.      *)
(***************************************************************************)
C34_FailureWrappedAsResult ==
    Responded =>
        /\ "error" \in DOMAIN response
             => (sent > 0 /\ ~IsLocalEnvelope(body_bytes))
        /\ (IsLocalEnvelope(body_bytes) /\ ~ResultOf(response).success)
             => ResultOf(response) \in HandlerFailures

\* A restore_focus with no saved reference has been answered, on Windows.
C34_Witness ==
    /\ Responded
    /\ platform = "win32"
    /\ IsLocalEnvelope(body_bytes)
    /\ body_bytes.action = "restore_focus"
    /\ "result" \in DOMAIN response
    /\ ResultOf(response) = NoPreviousResult

(***************************************************************************)
(* C35.  A forwarded request reaches Unity at most once: once an attempt   *)
(* of the request was not refused, so that Unity has the body,             *)
(* forward_to_unity is not called for the request again.                   *)
(***************************************************************************)
Delivered == sent > 0 /\ ~refused_only

C35_DeliveredAtMostOnce == [][ Delivered => sent' <= sent ]_vars
====
